---- MODULE Spec2Model ----
(***************************************************************************)
(* A model of supergit (src/src/supergit/supergit.py): one run of the      *)
(* command-line program against a directory tree that holds regular files, *)
(* .supergit.yaml sidecar files and git repositories.  The LLM gateway is  *)
(* an environment that may answer anything.                                *)
(***************************************************************************)
EXTENDS Integers, Sequences, FiniteSets, TLC

VARIABLES dirs, files, sidecar, repos, last, run

vars == <<dirs, files, sidecar, repos, last, run>>

----------------------------------------------------------------------------
(* Bounds of the modelled trees.                                           *)

\* The subdirectories, files and sidecars a tree starts with, in all.
MaxObjects == 4
\* The runs of the program in succession, where a claim is about several.
Runs == 2

DirNames == {"d", "dx"}
FileNames == {"f", ".h"}
SidecarName == ".supergit.yaml"

\* Absolute directory paths, as sequences of names below "/".
AllDirs ==
    {<<>>} \cup {<<a>> : a \in DirNames} \cup {<<"d", b>> : b \in DirNames}

Items == AllDirs \X (FileNames \cup {SidecarName})

\* The directories a command line can name as the root, where repositories live.
RepoDirs == {<<>>, <<"d">>}

\* No file at a path; a file's content is named by the path it started at.
Absent == <<<<>>, "absent">>
NoKey == "nokey"

\* The process's working directory.
cwd == <<>>

----------------------------------------------------------------------------
(* Strings, as sequences of characters, and the os.path functions.         *)

Chars(n) ==
    CASE n = "d" -> <<"d">>
      [] n = "dx" -> <<"d", "x">>
      [] n = "f" -> <<"f">>
      [] n = ".h" -> <<".", "h">>
      [] n = ".git" -> <<".", "g", "i", "t">>
      [] n = ".supergit.yaml" -> <<".", "s", "u", "p", "e", "r", "g", "i", "t", ".", "y", "a", "m", "l">>

\* str.startswith
startswith(s, prefix) ==
    /\ Len(prefix) <= Len(s)
    /\ SubSeq(s, 1, Len(prefix)) = prefix

isabs(s) == startswith(s, <<"/">>)

\* os.path.join of two strings
os_path_join(a, b) ==
    IF isabs(b) THEN b
    ELSE IF a = <<>> \/ a[Len(a)] = "/" THEN a \o b
    ELSE a \o <<"/">> \o b

RECURSIVE JoinNames(_, _)
JoinNames(s, comps) ==
    IF comps = <<>> THEN s
    ELSE JoinNames(os_path_join(s, Chars(Head(comps))), Tail(comps))

\* A path argument is [abs, comps]; its text as the user or the LLM writes it.
PathArgs(D) == [abs : BOOLEAN, comps : D]

ArgStr(arg) ==
    IF arg.abs
    THEN JoinNames(<<"/">>, arg.comps)
    ELSE IF arg.comps = <<>> THEN <<".">> ELSE JoinNames(<<>>, arg.comps)

\* Where the operating system finds a path argument.
Locate(arg) == IF arg.abs THEN arg.comps ELSE cwd \o arg.comps

IsPrefix(p, q) == Len(p) <= Len(q) /\ SubSeq(q, 1, Len(p)) = p

RECURSIVE CommonLen(_, _)
CommonLen(p, q) ==
    IF p = <<>> \/ q = <<>> \/ Head(p) # Head(q) THEN 0
    ELSE 1 + CommonLen(Tail(p), Tail(q))

\* os.path.relpath(path, start): both made absolute against the working
\* directory; the result climbs `ups` levels from start and descends `down`.
relpath(pathLoc, startLoc) ==
    LET c == CommonLen(pathLoc, startLoc)
    IN  [ups |-> Len(startLoc) - c, down |-> SubSeq(pathLoc, c + 1, Len(pathLoc))]

\* The directory that os.path.join(start, rel) names.
ApplyRel(startLoc, rel) ==
    SubSeq(startLoc, 1, Len(startLoc) - rel.ups) \o rel.down

----------------------------------------------------------------------------
(* The directory tree.  A world is [dirs, files, sidecar, repos]:          *)
(*   dirs     the directories that exist                                   *)
(*   files    the content of each regular file, or Absent                  *)
(*   sidecar  what each directory's .supergit.yaml loads to                *)
(*   repos    the git repository rooted at each directory                  *)

\* The names a sidecar's 'entries' may list.
EntryNames == DirNames \cup FileNames

\* What yaml.safe_load makes of a sidecar file: a mapping with or without
\* 'entries' and with or without one free-form key, or None (an empty file).
Dict ==
    {x \in [kind : {"dict"}, hasEntries : BOOLEAN, entries : SUBSET EntryNames,
            description : {NoKey, "kept"}] : ~x.hasEntries => x.entries = {}}

EmptyDict == [kind |-> "dict", hasEntries |-> FALSE, entries |-> {}, description |-> NoKey]

YamlNull == [kind |-> "null", hasEntries |-> FALSE, entries |-> {}, description |-> NoKey]

NoSidecar == [kind |-> "absent", hasEntries |-> FALSE, entries |-> {}, description |-> NoKey]

Prefixes(d) == {SubSeq(d, 1, k) : k \in 0..Len(d)}

\* A git tree: the files and the sidecars it holds, each with its content.
EmptyTree == [files |-> {}, sidecars |-> {}]

\* A repository: its HEAD tree, its index, the commits made since the start
\* and the paths the last of them touched.
NoRepo == [exists |-> FALSE, head |-> EmptyTree, index |-> EmptyTree,
           commits |-> 0, touched |-> {}]

World == [dirs |-> dirs, files |-> files, sidecar |-> sidecar, repos |-> repos]

\* The working tree as a git tree.
Snapshot(w) ==
    [files |-> {<<i, w.files[i]>> : i \in {j \in AllDirs \X FileNames : w.files[j] # Absent}},
     sidecars |-> {<<d, w.sidecar[d]>> : d \in {e \in AllDirs : w.sidecar[e] # NoSidecar}}]

\* What a git tree holds at a path: nothing, or one content.
Held(tree, item) ==
    IF item[2] = SidecarName
    THEN {q \in tree.sidecars : q[1] = item[1]}
    ELSE {q \in tree.files : q[1] = item}

\* A git tree with a path set to what another tree holds there.
Put(tree, item, from) ==
    IF item[2] = SidecarName
    THEN [tree EXCEPT !.sidecars = (@ \ Held(tree, item)) \cup Held(from, item)]
    ELSE [tree EXCEPT !.files = (@ \ Held(tree, item)) \cup Held(from, item)]

\* os.scandir(directory): the names of the directory's children.
scandir(w, d) ==
    {n \in DirNames : d \o <<n>> \in w.dirs}
      \cup {n \in FileNames : w.files[<<d, n>>] # Absent}
      \cup (IF w.sidecar[d] # NoSidecar THEN {SidecarName} ELSE {})
      \cup (IF d \in RepoDirs /\ w.repos[d].exists THEN {".git"} ELSE {})

\* read_supergit_context: yaml.safe_load of the sidecar, {} without one.
read_supergit_context(w, d) ==
    IF w.sidecar[d] # NoSidecar THEN w.sidecar[d] ELSE EmptyDict

\* The order in which os.walk visits the children of a directory: the
\* listing order of the file system, the same from one run to the next.
NameOrder == <<"d", "dx">>

RECURSIVE walkFrom(_, _, _)
walkFrom(w, top, k) ==
    IF k > Len(NameOrder) THEN <<>>
    ELSE LET sub == top \o <<NameOrder[k]>>
         IN  (IF sub \in w.dirs THEN <<sub>> \o walkFrom(w, sub, 1) ELSE <<>>)
               \o walkFrom(w, top, k + 1)

\* os.walk(root_dir), top down: the directories visited, in order.
walk(w, rootLoc) ==
    IF rootLoc \in w.dirs THEN <<rootLoc>> \o walkFrom(w, rootLoc, 1) ELSE <<>>

\* The text os.walk yields for a directory below root_dir.
WalkStr(rootArg, loc) ==
    JoinNames(ArgStr(rootArg), SubSeq(loc, Len(Locate(rootArg)) + 1, Len(loc)))

\* get_combined_supergit_contexts: the directories of the walk that hold a
\* sidecar, in walk order (the mapping's keys; the values are the sidecars).
get_combined_supergit_contexts(w, rootArg) ==
    LET HasSidecar(d) == w.sidecar[d] # NoSidecar
    IN  SelectSeq(walk(w, Locate(rootArg)), HasSidecar)

\* A faulty update_supergit_yaml: it writes only the names not yet listed.
update_supergit_yaml_new_only(w, d) ==
    LET entries == {n \in scandir(w, d) :
                      ~(n = SidecarName \/ startswith(Chars(n), <<".">>))}
        context == read_supergit_context(w, d)
    IN  IF context.kind = "null"
        THEN [w |-> w, raised |-> TRUE]
        ELSE [w |-> [w EXCEPT !.sidecar[d] =
                        [context EXCEPT !.hasEntries = TRUE,
                                        !.entries = entries \ context.entries]],
              raised |-> FALSE]

\* update_supergit_yaml(directory): a fresh listing written to 'entries'.
update_supergit_yaml(w, d) ==
    LET entries == {n \in scandir(w, d) :
                      ~(n = SidecarName \/ startswith(Chars(n), <<".">>))}
        context == read_supergit_context(w, d)
    IN  IF context.kind = "null"
        THEN [w |-> w, raised |-> TRUE]     \* None['entries'] = ...: TypeError,
                                            \* before the file is opened for writing
        ELSE [w |-> [w EXCEPT !.sidecar[d] =
                        [context EXCEPT !.hasEntries = TRUE, !.entries = entries]],
              raised |-> FALSE]

RECURSIVE updateEach(_, _)
updateEach(w, ds) ==
    IF ds = <<>> THEN [w |-> w, raised |-> FALSE]
    ELSE LET r == update_supergit_yaml(w, Head(ds))
         IN  IF r.raised THEN r ELSE updateEach(r.w, Tail(ds))

\* A faulty reindex_supergit: it updates every directory of the walk.
reindex_supergit_every_dir(w, rootArg) ==
    updateEach(w, walk(w, Locate(rootArg)))

\* reindex_supergit(root_dir)
reindex_supergit(w, rootArg) ==
    LET HasSidecar(d) == w.sidecar[d] # NoSidecar
    IN  updateEach(w, SelectSeq(walk(w, Locate(rootArg)), HasSidecar))

----------------------------------------------------------------------------
(* git, as far as place_file uses it.                                      *)

\* git.Repo(root_dir), or git.Repo.init(root_dir) where there is none.
open_repo(w, rootLoc) ==
    IF w.repos[rootLoc].exists THEN w
    ELSE [w EXCEPT !.repos[rootLoc] = [NoRepo EXCEPT !.exists = TRUE]]

\* repo.git.add(path): the index takes the path's working content.
git_add(w, rootLoc, item) ==
    [w EXCEPT !.repos[rootLoc].index = Put(@, item, Snapshot(w))]

\* repo.index.commit(message): one commit of the whole index.
index_commit(w, rootLoc) ==
    LET r == w.repos[rootLoc]
    IN  [w EXCEPT !.repos[rootLoc] =
            [r EXCEPT !.head = r.index,
                      !.commits = r.commits + 1,
                      !.touched = {i \in Items : Held(r.index, i) # Held(r.head, i)}]]

\* place_file(file_path, root_dir, target_directory, target_filename)
place_file(w, src, rootArg, targetArg, filename) ==
    LET rootLoc == Locate(rootArg)
        target_directory_rel == relpath(Locate(targetArg), rootLoc)
        full_target_directory == ApplyRel(rootLoc, target_directory_rel)
        new_path == <<full_target_directory, filename>>
        made == [w EXCEPT !.dirs = w.dirs \cup Prefixes(full_target_directory)]
        moved == [made EXCEPT !.files =
                     [[w.files EXCEPT ![src] = Absent] EXCEPT ![new_path] = w.files[src]]]
        updated == update_supergit_yaml(moved, full_target_directory)
        opened == open_repo(updated.w, rootLoc)
        \* relpath(new_path, root_dir) and of the sidecar: the same directory
        relative_dir == relpath(full_target_directory, rootLoc)
        staged == git_add(git_add(opened, rootLoc, new_path), rootLoc,
                          <<full_target_directory, SidecarName>>)
    IN  IF updated.raised THEN [w |-> updated.w, raised |-> TRUE, dest |-> full_target_directory]
        ELSE IF relative_dir.ups > 0     \* git add: path outside the repository
        THEN [w |-> opened, raised |-> TRUE, dest |-> full_target_directory]
        ELSE [w |-> index_commit(staged, rootLoc), raised |-> FALSE,
              dest |-> full_target_directory]

----------------------------------------------------------------------------
(* Command lines and gateway replies.                                      *)

FileItems == AllDirs \X FileNames

NoItem == <<<<>>, "f">>

Dot == [abs |-> FALSE, comps |-> <<>>]

\* --dir values: "d" and "/d" (without --dir the root is ".").
RootArgs == {[abs |-> FALSE, comps |-> <<"d">>], [abs |-> TRUE, comps |-> <<"d">>]}

\* The directories the placement reply may name, relative or absolute.
TargetArgs == PathArgs({<<"d">>, <<"dx">>, <<"d", "d">>})

AddArgs ==
    {[kind |-> k, item |-> NoItem] : k \in {"absent", "empty"}}
      \cup [kind : {"path"}, item : FileItems]

DirArgs == {[given |-> FALSE, arg |-> Dot]} \cup [given : {TRUE}, arg : RootArgs]

QueryArgs == {"absent", "empty", "text"}

Args == [add : AddArgs, init : BOOLEAN, reindex : BOOLEAN, dir : DirArgs, query : QueryArgs]

\* The action options a command line supplies.
Supplied(args) ==
    (IF args.add.kind # "absent" THEN {"add"} ELSE {})
      \cup (IF args.init THEN {"init"} ELSE {})
      \cup (IF args.reindex THEN {"reindex"} ELSE {})
      \cup (IF args.query # "absent" THEN {"query"} ELSE {})

\* The command lines that supply at most one action option.
SingleArgs == {a \in Args : Cardinality(Supplied(a)) <= 1}

\* A faulty main: independent ifs in place of the elif chain.
Branches_independent(args) ==
    LET taken == (IF args.add.kind = "path" THEN {"add"} ELSE {})
                   \cup (IF args.init THEN {"init"} ELSE {})
                   \cup (IF args.reindex THEN {"reindex"} ELSE {})
                   \cup (IF args.query = "text" THEN {"query"} ELSE {})
    IN  IF taken = {} THEN {"usage"} ELSE taken

\* main's if/elif chain: the branches a command line takes.
Branches(args) ==
    IF args.add.kind = "path" THEN {"add"}
    ELSE IF args.init THEN {"init"}
    ELSE IF args.reindex THEN {"reindex"}
    ELSE IF args.query = "text" THEN {"query"}
    ELSE {"usage"}

\* root_dir = args.dir if args.dir else '.'
root_dir(args) == IF args.dir.given THEN args.dir.arg ELSE Dot

\* What the gateway returns for a placement prompt: None (a failure), text
\* that is not YAML, YAML that is no mapping, or a mapping.
NoReply ==
    [kind |-> "none", hasDir |-> FALSE, directory |-> Dot, hasFile |-> FALSE, filename |-> "f"]

AddReplies ==
    {[NoReply EXCEPT !.kind = k] : k \in {"none", "unparsable", "scalar", "mapping"}}
      \cup {[kind |-> "mapping", hasDir |-> FALSE, directory |-> Dot,
             hasFile |-> TRUE, filename |-> "f"]}
      \cup {[kind |-> "mapping", hasDir |-> TRUE, directory |-> [abs |-> FALSE, comps |-> <<"d">>],
             hasFile |-> FALSE, filename |-> "f"]}
      \cup [kind : {"mapping"}, hasDir : {TRUE}, directory : TargetArgs,
            hasFile : {TRUE}, filename : FileNames]

\* What the gateway returns for the init prompt: None, text that is not JSON,
\* JSON that is no array of objects, or an array of {path, supergit_yaml}.
InitItems ==
    {[hasPath |-> FALSE, path |-> <<>>, hasYaml |-> TRUE,
      yaml |-> [EmptyDict EXCEPT !.description = "kept"]],
     [hasPath |-> TRUE, path |-> <<>>, hasYaml |-> FALSE, yaml |-> EmptyDict]}
      \cup [hasPath : {TRUE}, path : {<<>>, <<"d">>, <<"dx">>}, hasYaml : {TRUE},
            yaml : {[EmptyDict EXCEPT !.description = "kept"],
                    [EmptyDict EXCEPT !.hasEntries = TRUE, !.entries = {"f"}]}]

InitReplies ==
    {[kind |-> k, items |-> <<>>] : k \in {"none", "unparsable", "scalar"}}
      \cup {[kind |-> "array", items |-> <<>>]}
      \cup {[kind |-> "array", items |-> <<i>>] : i \in InitItems}

\* What the gateway returns for a query prompt: None or text.
QueryReplies == {"none", "text"}

NoFilesMsg == "No files found matching the query."

\* What the last run of the program did: the operation, the exit status, how
\* far it got, its inputs, and whether it changed the tree or a repository.
NoLast ==
    [op |-> "none", exit |-> 0, stage |-> "none", supplied |-> {}, branches |-> {},
     rootArg |-> Dot, src |-> NoItem, target |-> Dot, filename |-> "f", dest |-> <<>>,
     reply |-> NoReply, gateway |-> FALSE, result |-> "none", included |-> {},
     described |-> {}, changed |-> FALSE, again |-> FALSE]

Ran(args, op) == [NoLast EXCEPT !.op = op, !.supplied = Supplied(args),
                                !.branches = Branches(args), !.rootArg = root_dir(args)]

----------------------------------------------------------------------------
(* The operations.  Each returns the world it leaves and what it reports;  *)
(* exit 1 is sys.exit(1) or an uncaught exception.                         *)

\* A faulty analyze_file: it asks the gateway whether or not a sidecar exists.
analyze_file_no_precondition(w, rootArg, reply) ==
    IF reply.kind = "none"
    THEN [stage |-> "gateway_none", gateway |-> TRUE]
    ELSE IF reply.kind = "unparsable"
    THEN [stage |-> "unparsable", gateway |-> TRUE]
    ELSE [stage |-> "analyzed", gateway |-> TRUE]

\* analyze_file(file_path, root_dir, user_message): the placement decision,
\* or the stage at which the process ends.
analyze_file(w, rootArg, reply) ==
    IF get_combined_supergit_contexts(w, rootArg) = <<>>
    THEN [stage |-> "nosidecar", gateway |-> FALSE]
    ELSE IF reply.kind = "none"             \* None.strip(): AttributeError
    THEN [stage |-> "gateway_none", gateway |-> TRUE]
    ELSE IF reply.kind = "unparsable"       \* yaml.YAMLError: sys.exit(1)
    THEN [stage |-> "unparsable", gateway |-> TRUE]
    ELSE [stage |-> "analyzed", gateway |-> TRUE]

\* A faulty --add branch: it checks the directory of the decision only, so a
\* decision without a filename reaches place_file, which creates the target
\* directory before os.path.join(..., None) raises.
main_add_skips_filename_check(w, args, reply) ==
    LET src == args.add.item
        root == root_dir(args)
        base == [Ran(args, "add") EXCEPT !.src = src]
        a == analyze_file(w, root, reply)
        seen == [base EXCEPT !.exit = 1, !.gateway = a.gateway,
                             !.reply = IF a.gateway THEN reply ELSE NoReply]
        p == place_file(w, src, root, reply.directory, reply.filename)
    IN  IF w.files[src] = Absent
        THEN [w |-> w, last |-> [base EXCEPT !.exit = 1, !.stage = "nofile"]]
        ELSE IF a.stage # "analyzed"
        THEN [w |-> w, last |-> [seen EXCEPT !.stage = a.stage]]
        ELSE IF reply.kind = "scalar"
        THEN [w |-> w, last |-> [seen EXCEPT !.stage = "notmapping"]]
        ELSE IF ~reply.hasDir
        THEN [w |-> w, last |-> [seen EXCEPT !.stage = "incomplete"]]
        ELSE IF ~reply.hasFile
        THEN [w |-> [w EXCEPT !.dirs = @ \cup Prefixes(Locate(reply.directory))],
              last |-> [seen EXCEPT !.stage = "place_raised"]]
        ELSE [w |-> p.w,
              last |-> [seen EXCEPT !.exit = IF p.raised THEN 1 ELSE 0,
                                    !.stage = IF p.raised THEN "place_raised" ELSE "placed",
                                    !.target = reply.directory,
                                    !.filename = reply.filename,
                                    !.dest = p.dest]]

\* main, the --add branch
main_add(w, args, reply) ==
    LET src == args.add.item
        root == root_dir(args)
        base == [Ran(args, "add") EXCEPT !.src = src]
        a == analyze_file(w, root, reply)
        seen == [base EXCEPT !.exit = 1, !.gateway = a.gateway,
                             !.reply = IF a.gateway THEN reply ELSE NoReply]
        p == place_file(w, src, root, reply.directory, reply.filename)
    IN  IF w.files[src] = Absent
        THEN [w |-> w, last |-> [base EXCEPT !.exit = 1, !.stage = "nofile"]]
        ELSE IF a.stage # "analyzed"
        THEN [w |-> w, last |-> [seen EXCEPT !.stage = a.stage]]
        ELSE IF reply.kind = "scalar"       \* result.get: AttributeError
        THEN [w |-> w, last |-> [seen EXCEPT !.stage = "notmapping"]]
        ELSE IF ~reply.hasDir \/ ~reply.hasFile
        THEN [w |-> w, last |-> [seen EXCEPT !.stage = "incomplete"]]
        ELSE [w |-> p.w,
              last |-> [seen EXCEPT !.exit = IF p.raised THEN 1 ELSE 0,
                                    !.stage = IF p.raised THEN "place_raised" ELSE "placed",
                                    !.target = reply.directory,
                                    !.filename = reply.filename,
                                    !.dest = p.dest]]

\* initialize_supergit(root_dir)
RECURSIVE writeEach(_, _, _)
writeEach(w, rootLoc, items) ==
    IF items = <<>> THEN [w |-> w, raised |-> FALSE]
    ELSE LET item == Head(items)
             full_dir_path == rootLoc \o item.path
         IN  IF ~item.hasPath \/ ~item.hasYaml
             THEN writeEach(w, rootLoc, Tail(items))
             ELSE IF full_dir_path \notin w.dirs     \* open(): FileNotFoundError
             THEN [w |-> w, raised |-> TRUE]
             ELSE writeEach([w EXCEPT !.sidecar[full_dir_path] = item.yaml],
                            rootLoc, Tail(items))

initialize_supergit(w, rootArg, reply) ==
    IF reply.kind # "array"
    THEN [w |-> w, raised |-> TRUE]
    ELSE writeEach(w, Locate(rootArg), reply.items)

\* main, the --init branch
main_init(w, args, reply) ==
    LET r == initialize_supergit(w, root_dir(args), reply)
    IN  [w |-> r.w,
         last |-> [Ran(args, "init") EXCEPT !.exit = IF r.raised THEN 1 ELSE 0,
                                            !.gateway = TRUE,
                                            !.stage = IF r.raised THEN "raised" ELSE "done"]]

\* main, the --reindex branch
main_reindex(w, args) ==
    LET r == reindex_supergit(w, root_dir(args))
    IN  [w |-> r.w,
         last |-> [Ran(args, "reindex") EXCEPT !.exit = IF r.raised THEN 1 ELSE 0,
                                               !.stage = IF r.raised THEN "raised" ELSE "done"]]

\* The entries of a directory's sidecar that name an existing file.
Previews(w, d) ==
    {<<d, e>> : e \in {n \in w.sidecar[d].entries \cap FileNames : w.files[<<d, n>>] # Absent}}

\* The collecting loop of find_files_by_query over the aggregated context.
RECURSIVE collect(_, _, _, _, _)
collect(w, rootArg, scope, ds, acc) ==
    IF ds = <<>> THEN acc
    ELSE LET dir_path == Head(ds)
         IN  IF ~startswith(WalkStr(rootArg, dir_path), scope)
             THEN collect(w, rootArg, scope, Tail(ds), acc)
             ELSE IF w.sidecar[dir_path].kind = "null"     \* None.get: AttributeError
             THEN [acc EXCEPT !.raised = TRUE]
             ELSE collect(w, rootArg, scope, Tail(ds),
                          [acc EXCEPT !.included = @ \cup {dir_path},
                                      !.described = @ \cup Previews(w, dir_path)])

\* A faulty find_files_by_query: no early return when nothing was collected.
find_files_by_query_always_asks(rootArg, directory, w, reply) ==
    LET scope == os_path_join(ArgStr(rootArg), ArgStr(directory))
        c == collect(w, rootArg, scope, get_combined_supergit_contexts(w, rootArg),
                     [included |-> {}, described |-> {}, raised |-> FALSE])
        got == [included |-> c.included, described |-> c.described,
                gateway |-> FALSE, result |-> "none", exit |-> 1, stage |-> "queried"]
    IN  IF c.raised THEN [got EXCEPT !.stage = "collect_raised"]
        ELSE IF reply = "none"
        THEN [got EXCEPT !.gateway = TRUE]
        ELSE [got EXCEPT !.gateway = TRUE, !.result = "reply", !.exit = 0]

\* find_files_by_query(root_dir, directory, query)
find_files_by_query(rootArg, directory, w, reply) ==
    LET scope == os_path_join(ArgStr(rootArg), ArgStr(directory))
        c == collect(w, rootArg, scope, get_combined_supergit_contexts(w, rootArg),
                     [included |-> {}, described |-> {}, raised |-> FALSE])
        got == [included |-> c.included, described |-> c.described,
                gateway |-> FALSE, result |-> "none", exit |-> 1, stage |-> "queried"]
    IN  IF c.raised THEN [got EXCEPT !.stage = "collect_raised"]
        ELSE IF c.described = {}
        THEN [got EXCEPT !.result = NoFilesMsg, !.exit = 0]
        ELSE IF reply = "none"               \* None.strip(): AttributeError
        THEN [got EXCEPT !.gateway = TRUE]
        ELSE [got EXCEPT !.gateway = TRUE, !.result = "reply", !.exit = 0]

\* main, the query branch
main_query(w, args, reply) ==
    LET base == Ran(args, "query")
        r == find_files_by_query(root_dir(args), args.dir.arg, w, reply)
    IN  IF ~args.dir.given
        THEN [w |-> w, last |-> [base EXCEPT !.exit = 1, !.stage = "nodir"]]
        ELSE [w |-> w,
              last |-> [base EXCEPT !.exit = r.exit, !.stage = r.stage,
                                    !.gateway = r.gateway, !.result = r.result,
                                    !.included = r.included, !.described = r.described]]

\* main with no action: parser.print_help()
main_usage(w, args) == [w |-> w, last |-> [Ran(args, "usage") EXCEPT !.stage = "usage"]]

----------------------------------------------------------------------------
(* The state machine: the tree before the program starts, and its runs.    *)

\* The sidecars a tree may start with.
SidecarInit ==
    {YamlNull,
     [EmptyDict EXCEPT !.description = "kept"],
     [EmptyDict EXCEPT !.hasEntries = TRUE, !.entries = {"f", "d"}]}

PrefixClosed(D) == \A d \in D : Prefixes(d) \subseteq D

\* The repository a tree may start with at its top: none, one with the tree
\* committed, one with the tree staged and nothing committed.
RepoInit(w) ==
    {NoRepo,
     [NoRepo EXCEPT !.exists = TRUE, !.head = Snapshot(w), !.index = Snapshot(w)],
     [NoRepo EXCEPT !.exists = TRUE, !.index = Snapshot(w)]}

Init ==
    /\ dirs \in {D \in SUBSET AllDirs : <<>> \in D /\ PrefixClosed(D)}
    /\ \E S \in SUBSET dirs, F \in SUBSET (dirs \X FileNames) :
          /\ (Cardinality(dirs) - 1) + Cardinality(S) + Cardinality(F) <= MaxObjects
          /\ \E f \in [S -> SidecarInit] :
                sidecar = [d \in AllDirs |-> IF d \in S THEN f[d] ELSE NoSidecar]
          /\ files = [i \in FileItems |-> IF i \in F THEN i ELSE Absent]
    /\ \E r \in RepoInit([dirs |-> dirs, files |-> files, sidecar |-> sidecar,
                          repos |-> [d \in RepoDirs |-> NoRepo]]) :
          repos = [d \in RepoDirs |-> IF d = <<>> THEN r ELSE NoRepo]
    /\ last = NoLast
    /\ run = 0

Finish(r) ==
    /\ dirs' = r.w.dirs
    /\ files' = r.w.files
    /\ sidecar' = r.w.sidecar
    /\ repos' = r.w.repos
    /\ last' = [r.last EXCEPT !.changed = (r.w # World),
                              !.again = (last.op = r.last.op /\ last.rootArg = r.last.rootArg)]
    /\ run' = run + 1

\* The command lines of A tried against a tree: --add names a file of the
\* tree, or one path where there may be none.
ArgsOf(A, w) ==
    {a \in A : a.add.kind = "path" =>
                  (w.files[a.add.item] # Absent \/ a.add.item = NoItem)}

AddOp(A) ==
    \E args \in ArgsOf(A, World) :
       /\ "add" \in Branches(args)
       /\ \E reply \in AddReplies : Finish(main_add(World, args, reply))

InitOp(A) ==
    \E args \in ArgsOf(A, World) :
       /\ "init" \in Branches(args)
       /\ \E reply \in InitReplies : Finish(main_init(World, args, reply))

ReindexOp(A) ==
    \E args \in ArgsOf(A, World) :
       /\ "reindex" \in Branches(args)
       /\ Finish(main_reindex(World, args))

QueryOp(A) ==
    \E args \in ArgsOf(A, World) :
       /\ "query" \in Branches(args)
       /\ \E reply \in QueryReplies : Finish(main_query(World, args, reply))

UsageOp(A) ==
    \E args \in ArgsOf(A, World) :
       /\ "usage" \in Branches(args)
       /\ Finish(main_usage(World, args))

\* One run of the program on a tree, with one action option at most.
Next ==
    /\ run = 0
    /\ (AddOp(SingleArgs) \/ InitOp(SingleArgs) \/ ReindexOp(SingleArgs)
          \/ QueryOp(SingleArgs) \/ UsageOp(SingleArgs))

Spec == Init /\ [][Next]_vars

\* Reindexing runs in succession on a tree.
NextReindex == run < Runs /\ ReindexOp(SingleArgs)

SpecReindex == Init /\ [][NextReindex]_vars

\* One run of the program with any combination of options, on a tree that is
\* a single directory.
InitCLI == Init /\ dirs = {<<>>}

NextCLI ==
    /\ run = 0
    /\ (AddOp(Args) \/ InitOp(Args) \/ ReindexOp(Args) \/ QueryOp(Args) \/ UsageOp(Args))

SpecCLI == InitCLI /\ [][NextCLI]_vars

----------------------------------------------------------------------------
(* Properties.                                                             *)

PostWorld == [dirs |-> dirs', files |-> files', sidecar |-> sidecar', repos |-> repos']

TreeUnchanged == dirs' = dirs /\ files' = files /\ sidecar' = sidecar /\ repos' = repos

\* The names a refresh of d must list: the children that are not hidden.
Visible(w, d) == {n \in scandir(w, d) : Chars(n)[1] # "."}

\* The root tree holds no sidecar.
NoSidecars(w, rootArg) ==
    \A d \in w.dirs : IsPrefix(Locate(rootArg), d) => w.sidecar[d] = NoSidecar

\* An add with these inputs must end before the placement starts.
AddMustFail(w, l) ==
    \/ w.files[l.src] = Absent
    \/ NoSidecars(w, l.rootArg)
    \/ l.reply.kind # "mapping"
    \/ ~l.reply.hasDir
    \/ ~l.reply.hasFile

\* C1: an add that fails before the placement (source missing, no sidecar,
\* gateway failure, reply unparsable or no mapping, reply without directory
\* or filename) exits nonzero and leaves files, directories, sidecars and
\* repositories as they were.
C1_AddFailsCleanly ==
    [][(last'.op = "add" /\ AddMustFail(World, last'))
          => (last'.exit # 0 /\ TreeUnchanged)]_vars

C1_Witness ==
    /\ last.op = "add"
    /\ last.exit = 1
    /\ last.gateway
    /\ last.reply.kind = "unparsable"
    /\ files[last.src] = last.src

\* C2 as written: in a tree without sidecars add and query both end with a
\* fatal error (nonzero exit) and change nothing.
C2_BothFatal ==
    [][(last'.op \in {"add", "query"} /\ NoSidecars(World, last'.rootArg))
          => (last'.exit # 0 /\ TreeUnchanged)]_vars

\* C2 amended: in a tree without sidecars add exits nonzero, a query given
\* --dir returns the no-results message and exits zero, and neither contacts
\* the gateway or changes the tree or a repository.
C2_AddFatalQueryEmpty ==
    [][(last'.op \in {"add", "query"} /\ NoSidecars(World, last'.rootArg))
          => /\ TreeUnchanged
             /\ ~last'.gateway
             /\ last'.op = "add" => last'.exit # 0
             /\ (last'.op = "query" /\ last'.stage # "nodir")
                  => (last'.exit = 0 /\ last'.result = NoFilesMsg)]_vars

C2_Witness ==
    /\ last.op = "query"
    /\ last.stage = "queried"
    /\ NoSidecars(World, last.rootArg)
    /\ last.result = NoFilesMsg
    /\ last.exit = 0

\* Where C3 puts the file: the target directory taken relative to the root,
\* or as it stands when absolute.
C3_Expected(l) ==
    IF l.target.abs THEN l.target.comps ELSE Locate(l.rootArg) \o l.target.comps

\* C3: after a successful placement the file is at root/<target relative to
\* root>/filename, inside the root tree, with the source's content, and the
\* source path no longer holds it.
C3_PlacedUnderRoot ==
    (last.op = "add" /\ last.stage = "placed")
       => LET want == C3_Expected(last)
          IN  /\ want \in dirs
              /\ IsPrefix(Locate(last.rootArg), want)
              /\ files[<<want, last.filename>>] = last.src
              /\ <<want, last.filename>> # last.src => files[last.src] = Absent

\* C4: a successful placement leaves one new commit in the root's repository,
\* touching exactly the moved file and the target directory's sidecar.
C4_CommitTouchesTwo ==
    (last.op = "add" /\ last.stage = "placed")
       => LET r == repos[Locate(last.rootArg)]
          IN  /\ r.exists
              /\ r.commits = 1
              /\ r.touched = {<<last.dest, last.filename>>, <<last.dest, SidecarName>>}

C6_ReindexIdempotent ==
    [][(last'.op = "reindex" /\ last'.again)
          => \A d \in AllDirs :
                /\ sidecar'[d].hasEntries = sidecar[d].hasEntries
                /\ sidecar'[d].entries = sidecar[d].entries]_vars

C6_Witness ==
    /\ last.op = "reindex"
    /\ last.again
    /\ last.exit = 0
    /\ \E d \in dirs : sidecar[d].hasEntries /\ sidecar[d].entries \notin {{}, {"f", "d"}}

ActionOps == {"add", "init", "reindex", "query"}

\* C8: whatever options a command line supplies, at most one of the four
\* operations runs; with none supplied the program prints usage, exits zero
\* and does nothing else.
C8_OneOperation ==
    last.op # "none"
       => /\ Cardinality(last.branches \cap ActionOps) <= 1
          /\ last.op \in last.branches
          /\ last.supplied = {}
                => (last.op = "usage" /\ last.exit = 0 /\ ~last.changed /\ ~last.gateway)

C8_Witness ==
    /\ last.supplied = ActionOps
    /\ last.branches = {"add"}
    /\ last.op = "add"

\* The sidecar of d after a refresh: a mapping whose entries are the visible
\* children and whose other key is as before.
C9_Refreshed(d) ==
    /\ sidecar'[d].kind = "dict"
    /\ sidecar'[d].hasEntries
    /\ sidecar'[d].entries = Visible(PostWorld, d)
    /\ sidecar[d].kind = "dict" => sidecar'[d].description = sidecar[d].description

\* C9: a refresh of a directory that holds a sidecar, whatever its content,
\* completes and leaves entries equal to the visible children, other keys
\* kept: every sidecar of the root tree after a reindex, the target's after
\* a placement.
C9_RefreshCompletes ==
    [][/\ last'.op = "reindex"
          => /\ last'.exit = 0
             /\ \A d \in dirs :
                   (IsPrefix(Locate(last'.rootArg), d) /\ sidecar[d] # NoSidecar)
                      => C9_Refreshed(d)
       /\ (last'.op = "add" /\ last'.stage \in {"placed", "place_raised"}
             /\ sidecar[last'.dest] # NoSidecar)
          => C9_Refreshed(last'.dest)]_vars

\* C10: a query given --dir D previews exactly the directories of the
\* aggregated context at or below D.
C10_ScopeExact ==
    (last.op = "query" /\ last.stage = "queried")
       => last.included =
             {d \in dirs : IsPrefix(Locate(last.rootArg), d) /\ sidecar[d] # NoSidecar}

====
